---------------------------- MODULE Spec2Model ----------------------------
(***************************************************************************)
(* A model of checklistrello's due-date engine, AdvancedAIDateParser       *)
(* (src/app/ai_parser.py), and of the session that keeps one parser        *)
(* instance alive while the wall clock moves (src/app/streamlit_demo.py);  *)
(* of the Trello panel of that session (src/app/trello_api.py,             *)
(* src/app/trello_integration.py); and of the SQLite store                 *)
(* (src/app/database.py).                                                  *)
(*                                                                         *)
(* Texts are TLA+ strings and are scanned character by character, the way  *)
(* the regular expressions and the substring tests of the source scan      *)
(* them.  Dates are records [year, month, day]; a datetime's time of day   *)
(* is left out, because the source only ever adds whole days to it and     *)
(* compares and prints its date part.  Confidences are in hundredths       *)
(* (0.95 is 95).                                                           *)
(***************************************************************************)
EXTENDS Integers, Sequences, FiniteSets, TLC

VARIABLES
    now,        \* the wall-clock date, what datetime.now() would return
    parser,     \* the AdvancedAIDateParser kept in st.session_state
    result,     \* what the last suggest_due_date call returned or raised
    called_on,  \* the wall-clock date of that call (a history variable)
    session_state,    \* the Trello keys of st.session_state, a dict
    validation,       \* what the last validate_trello_credentials call returned
    handler,          \* the Trello handler that ran last, and the requests it sent
    db                \* the tables of the SQLite file of DatabaseManager

vars == <<now, parser, result, called_on, session_state, validation, handler, db>>

\* The variables of the Trello panel, and those of the store.
trelloVars == <<session_state, validation, handler>>

parserVars == <<now, parser, result, called_on>>

-----------------------------------------------------------------------------
(* Characters and strings: str.lower, str.strip, `in`, and the \b, \d, \w,  *)
(* \s classes of the re module.                                            *)

Digits == {"0", "1", "2", "3", "4", "5", "6", "7", "8", "9"}

LowerLetters ==
    {"a", "b", "c", "d", "e", "f", "g", "h", "i", "j", "k", "l", "m",
     "n", "o", "p", "q", "r", "s", "t", "u", "v", "w", "x", "y", "z"}

UpperLetters ==
    {"A", "B", "C", "D", "E", "F", "G", "H", "I", "J", "K", "L", "M",
     "N", "O", "P", "Q", "R", "S", "T", "U", "V", "W", "X", "Y", "Z"}

UpperToLower ==
    [c \in UpperLetters |->
        CASE c = "A" -> "a" [] c = "B" -> "b" [] c = "C" -> "c" [] c = "D" -> "d"
          [] c = "E" -> "e" [] c = "F" -> "f" [] c = "G" -> "g" [] c = "H" -> "h"
          [] c = "I" -> "i" [] c = "J" -> "j" [] c = "K" -> "k" [] c = "L" -> "l"
          [] c = "M" -> "m" [] c = "N" -> "n" [] c = "O" -> "o" [] c = "P" -> "p"
          [] c = "Q" -> "q" [] c = "R" -> "r" [] c = "S" -> "s" [] c = "T" -> "t"
          [] c = "U" -> "u" [] c = "V" -> "v" [] c = "W" -> "w" [] c = "X" -> "x"
          [] c = "Y" -> "y" [] c = "Z" -> "z"]

\* \w of a str pattern: letters, digits and the underscore.
WordChars == LowerLetters \cup UpperLetters \cup Digits \cup {"_"}

\* \s, and what str.strip removes.
Whitespace == {" "}

\* The character at position i of s, "" outside the string.
CharAt(s, i) == IF i >= 1 /\ i <= Len(s) THEN SubSeq(s, i, i) ELSE ""

IsDigit(s, i) == CharAt(s, i) \in Digits

IsWord(s, i) == CharAt(s, i) \in WordChars

IsSpace(s, i) == CharAt(s, i) \in Whitespace

\* \b between positions i-1 and i: exactly one side is a word character.
WordBoundary(s, i) == IsWord(s, i - 1) # IsWord(s, i)

\* str.lower, a half of the string at a time.
RECURSIVE lower(_)
lower(s) ==
    IF Len(s) = 0 THEN ""
    ELSE IF Len(s) = 1 THEN (IF s \in UpperLetters THEN UpperToLower[s] ELSE s)
    ELSE lower(SubSeq(s, 1, Len(s) \div 2)) \o lower(SubSeq(s, Len(s) \div 2 + 1, Len(s)))

\* str.strip
strip(s) ==
    LET kept == {i \in 1..Len(s) : ~IsSpace(s, i)}
    IN  IF kept = {} THEN ""
        ELSE SubSeq(s, CHOOSE i \in kept : \A j \in kept : i <= j,
                       CHOOSE i \in kept : \A j \in kept : i >= j)

\* sub in s
Contains(s, sub) ==
    \E i \in 1..(Len(s) - Len(sub) + 1) : SubSeq(s, i, i + Len(sub) - 1) = sub

\* re.search(r'\b' + word + r'\b', s) for a word of letters and blanks.
SearchWord(word, s) ==
    \E i \in 1..(Len(s) - Len(word) + 1) :
        /\ SubSeq(s, i, i + Len(word) - 1) = word
        /\ WordBoundary(s, i)
        /\ WordBoundary(s, i + Len(word))

\* int(digits)
RECURSIVE int(_)
int(s) ==
    IF s = "" THEN 0
    ELSE LET c == SubSeq(s, Len(s), Len(s))
             v == CHOOSE n \in 0..9 : ToString(n) = c
         IN  10 * int(SubSeq(s, 1, Len(s) - 1)) + v

\* The number of digits from position i on, counted up to 5.
DigitRun(s, i) ==
    CHOOSE n \in 0..5 :
        /\ \A k \in 0..(n - 1) : IsDigit(s, i + k)
        /\ n < 5 => ~IsDigit(s, i + n)

\* The first position from i on that holds no word character.
RECURSIVE WordEnd(_, _)
WordEnd(s, i) == IF IsWord(s, i) THEN WordEnd(s, i + 1) ELSE i

\* The first position from i on that holds no whitespace.
RECURSIVE SpaceEnd(_, _)
SpaceEnd(s, i) == IF IsSpace(s, i) THEN SpaceEnd(s, i + 1) ELSE i

-----------------------------------------------------------------------------
(* The calendar of datetime: the proleptic Gregorian calendar.             *)

IsLeap(year) == year % 4 = 0 /\ (year % 100 # 0 \/ year % 400 = 0)

\* calendar.monthrange(year, month)[1]
DaysInMonth(year, month) ==
    IF month = 2 THEN (IF IsLeap(year) THEN 29 ELSE 28)
    ELSE IF month \in {4, 6, 9, 11} THEN 30 ELSE 31

RECURSIVE DaysBeforeMonth(_, _)
DaysBeforeMonth(year, month) ==
    IF month = 1 THEN 0
    ELSE DaysBeforeMonth(year, month - 1) + DaysInMonth(year, month - 1)

\* date.toordinal: 0001-01-01 is day 1.
ToOrdinal(d) ==
    LET y == d.year - 1
    IN  365 * y + (y \div 4) - (y \div 100) + (y \div 400)
            + DaysBeforeMonth(d.year, d.month) + d.day

\* date.weekday: Monday is 0, Sunday is 6.
Weekday(d) == (ToOrdinal(d) + 6) % 7

NextDay(d) ==
    IF d.day < DaysInMonth(d.year, d.month) THEN [d EXCEPT !.day = d.day + 1]
    ELSE IF d.month < 12 THEN [year |-> d.year, month |-> d.month + 1, day |-> 1]
    ELSE [year |-> d.year + 1, month |-> 1, day |-> 1]

\* date + timedelta(days=n), n >= 0
RECURSIVE AddDays(_, _)
AddDays(d, n) ==
    IF n = 0 THEN d
    ELSE IF n > DaysInMonth(d.year, d.month) - d.day
         THEN AddDays(NextDay([d EXCEPT !.day = DaysInMonth(d.year, d.month)]),
                      n - (DaysInMonth(d.year, d.month) - d.day) - 1)
         ELSE [d EXCEPT !.day = d.day + n]

\* datetime(year, month, day): the date, or ValueError outside the calendar.
ValueError == [exception |-> "ValueError"]

\* A constructor that brings month and day into the calendar and never raises.
datetimeClamped(year, month, day) ==
    LET m == IF month < 1 THEN 1 ELSE IF month > 12 THEN 12 ELSE month
        last == DaysInMonth(year, m)
    IN  [year |-> year, month |-> m,
         day |-> IF day < 1 THEN 1 ELSE IF day > last THEN last ELSE day]

datetime(year, month, day) ==
    IF /\ year >= 1 /\ year <= 9999
       /\ month >= 1 /\ month <= 12
       /\ day >= 1 /\ day <= DaysInMonth(year, month)
    THEN [year |-> year, month |-> month, day |-> day]
    ELSE ValueError

-----------------------------------------------------------------------------
(* AdvancedAIDateParser: construction and the date helpers.                *)

\* (7 - weekday) % 7 without the "or 7": 0 on a Monday.
DaysToMondayOrZero(today) == (7 - Weekday(today)) % 7

\* _calculate_days_to_next_monday: (7 - weekday) % 7 or 7
_calculate_days_to_next_monday(today) ==
    LET current_weekday == Weekday(today)
        days == (7 - current_weekday) % 7
    IN  IF days = 0 THEN 7 ELSE days

\* __init__: the reference date is read from the clock once, here, and
\* days_to_next_monday is computed once from it.
AdvancedAIDateParser(clock) ==
    [today |-> clock,
     current_date |-> clock,
     days_to_next_monday |-> _calculate_days_to_next_monday(clock)]

\* target_weekday - current_weekday without the wrap into the next week.
DaysToWeekdayUnwrapped(self, target_weekday) == target_weekday - Weekday(self.today)

_days_to_weekday(self, target_weekday) ==
    LET current_weekday == Weekday(self.today)
    IN  IF current_weekday <= target_weekday
        THEN target_weekday - current_weekday
        ELSE 7 - (current_weekday - target_weekday)

\* (4 - weekday) % 7 or 7
_days_to_end_of_week(self) ==
    LET days == (4 - Weekday(self.today)) % 7
    IN  IF days = 0 THEN 7 ELSE days

_days_to_end_of_month(self) ==
    DaysInMonth(self.today.year, self.today.month) - self.today.day

\* today + relativedelta(months=1): the same day of the next month, or that
\* month's last day when it is shorter.
PlusOneMonth(d) ==
    LET y == IF d.month = 12 THEN d.year + 1 ELSE d.year
        m == IF d.month = 12 THEN 1 ELSE d.month + 1
        last == DaysInMonth(y, m)
    IN  [year |-> y, month |-> m, day |-> IF d.day < last THEN d.day ELSE last]

_days_to_next_month(self) ==
    ToOrdinal(PlusOneMonth(self.today)) - ToOrdinal(self.today)

\* x % 7 or 7
Mod7Or7(x) == IF x % 7 = 0 THEN 7 ELSE x % 7

-----------------------------------------------------------------------------
(* The catalogues built by __init__, in dictionary order.                  *)

urgency_keywords ==
    <<
       <<"critical", 10>>, <<"urgent", 9>>, <<"asap", 9>>, <<"immediately", 9>>,
       <<"emergency", 10>>, <<"priority", 8>>, <<"important", 7>>, <<"blocker", 10>>,
       <<"hotfix", 10>>, <<"breaking", 10>>, <<"outage", 10>>, <<"down", 9>>,
       <<"stat", 9>>, <<"now", 10>>, <<"right now", 10>>, <<"soon", 6>>,
       <<"quickly", 6>>, <<"fast", 6>>, <<"rush", 7>>, <<"hurry", 7>>,
       <<"today", 10>>, <<"immediate", 9>>, <<"tomorrow", 8>>, <<"deadline", 8>>,
       <<"due", 7>>, <<"overdue", 10>>, <<"late", 9>>, <<"expires", 8>>,
       <<"expiring", 8>>, <<"cutoff", 8>>, <<"timeline", 6>>, <<"this week", 7>>,
       <<"end of week", 7>>, <<"eow", 7>>, <<"next week", 5>>, <<"weekly", 4>>,
       <<"monthly", 3>>, <<"this month", 5>>, <<"end of month", 6>>, <<"eom", 6>>,
       <<"next month", 4>>, <<"quarterly", 3>>, <<"yearly", 2>>, <<"client", 7>>,
       <<"customer", 7>>, <<"boss", 8>>, <<"manager", 7>>, <<"meeting", 6>>,
       <<"presentation", 7>>, <<"demo", 7>>, <<"review", 6>>, <<"stakeholder", 7>>,
       <<"executive", 8>>, <<"vp", 8>>, <<"director", 7>>, <<"bug", 7>>,
       <<"fix", 6>>, <<"patch", 6>>, <<"deploy", 7>>, <<"release", 7>>,
       <<"production", 8>>, <<"prod", 8>>, <<"live", 8>>, <<"staging", 6>>,
       <<"test", 5>>, <<"qa", 6>>, <<"security", 9>>, <<"vulnerability", 9>>,
       <<"performance", 7>>, <<"optimization", 5>>, <<"refactor", 4>>, <<"milestone", 6>>,
       <<"deliverable", 6>>, <<"sprint", 6>>, <<"backlog", 3>>, <<"research", 4>>,
       <<"investigate", 4>>, <<"planning", 4>>, <<"design", 5>>, <<"documentation", 4>>,
       <<"estimate", 4>>, <<"budget", 5>>, <<"roadmap", 4>>
    >>

\* The keys of time_patterns, in the order _find_time_patterns tries them.
time_patterns ==
    <<"today", "tonight", "tomorrow", "day after tomorrow",
      "this week", "end of week", "eow",
      "next week", "next weeks",
      "next monday", "next tuesday", "next wednesday", "next thursday",
      "next friday", "next saturday", "next sunday",
      "monday", "tuesday", "wednesday", "thursday", "friday", "saturday", "sunday",
      "in a week", "in 1 week", "in two weeks", "in 2 weeks",
      "in a month", "in 1 month", "in two months", "in 2 months",
      "end of month", "eom", "next month", "in a year", "in 1 year">>

\* The value of time_patterns[pattern]: the constant, or what the lambda returns.
time_pattern_days(self, pattern) ==
    CASE pattern \in {"today", "tonight"} -> 0
      [] pattern = "tomorrow" -> 1
      [] pattern = "day after tomorrow" -> 2
      [] pattern \in {"this week", "end of week", "eow"} -> _days_to_end_of_week(self)
      [] pattern \in {"next week", "next weeks", "next monday"} -> self.days_to_next_monday
      [] pattern = "next tuesday" -> Mod7Or7(self.days_to_next_monday + 1)
      [] pattern = "next wednesday" -> Mod7Or7(self.days_to_next_monday + 2)
      [] pattern = "next thursday" -> Mod7Or7(self.days_to_next_monday + 3)
      [] pattern = "next friday" -> Mod7Or7(self.days_to_next_monday + 4)
      [] pattern = "next saturday" -> Mod7Or7(self.days_to_next_monday + 5)
      [] pattern = "next sunday" -> Mod7Or7(self.days_to_next_monday + 6)
      [] pattern = "monday" -> _days_to_weekday(self, 0)
      [] pattern = "tuesday" -> _days_to_weekday(self, 1)
      [] pattern = "wednesday" -> _days_to_weekday(self, 2)
      [] pattern = "thursday" -> _days_to_weekday(self, 3)
      [] pattern = "friday" -> _days_to_weekday(self, 4)
      [] pattern = "saturday" -> _days_to_weekday(self, 5)
      [] pattern = "sunday" -> _days_to_weekday(self, 6)
      [] pattern \in {"in a week", "in 1 week"} -> 7
      [] pattern \in {"in two weeks", "in 2 weeks"} -> 14
      [] pattern \in {"in a month", "in 1 month"} -> 30
      [] pattern \in {"in two months", "in 2 months"} -> 60
      [] pattern \in {"end of month", "eom"} -> _days_to_end_of_month(self)
      [] pattern = "next month" -> _days_to_next_month(self)
      [] pattern \in {"in a year", "in 1 year"} -> 365

context_patterns ==
    [work_related |->
        <<"meeting", "client", "project", "task", "deadline", "presentation",
          "report", "email", "call", "review", "approval", "team", "manager",
          "business", "office", "work", "corporate", "company">>,
     meeting_related |->
        <<"meeting", "call", "presentation", "demo", "standup", "sync",
          "discussion", "conference", "appointment", "interview", "briefing">>,
     development_related |->
        <<"bug", "fix", "code", "deploy", "test", "feature", "api",
          "database", "server", "application", "website", "build",
          "release", "software", "program", "script", "develop">>,
     personal_related |->
        <<"buy", "shopping", "appointment", "doctor", "dentist", "personal",
          "home", "family", "vacation", "travel", "grocery", "birthday",
          "anniversary", "holiday", "party", "event", "dinner", "lunch">>]

\* The month names _parse_date_match looks for, and _parse_month_day's table
\* in its order ('may' is written twice there and kept once).
MonthAbbreviations ==
    <<"jan", "feb", "mar", "apr", "may", "jun", "jul", "aug", "sep", "oct", "nov", "dec">>

months ==
    <<<<"jan", 1>>, <<"feb", 2>>, <<"mar", 3>>, <<"apr", 4>>, <<"may", 5>>, <<"jun", 6>>,
      <<"jul", 7>>, <<"aug", 8>>, <<"sep", 9>>, <<"oct", 10>>, <<"nov", 11>>, <<"dec", 12>>,
      <<"january", 1>>, <<"february", 2>>, <<"march", 3>>, <<"april", 4>>, <<"june", 6>>,
      <<"july", 7>>, <<"august", 8>>, <<"september", 9>>, <<"october", 10>>,
      <<"november", 11>>, <<"december", 12>>>>

-----------------------------------------------------------------------------
(* Python values that are not numbers or dates.                            *)

NoneValue == [type |-> "NoneType"]

\* A str argument, as opposed to any other object handed to the parser.
Str(value) == [type |-> "str", value |-> value]

IsException(x) == "exception" \in DOMAIN x

IsDate(x) == "year" \in DOMAIN x

\* s[i:j+1], "" when the slice leaves the string.
Slice(s, i, j) == IF i >= 1 /\ i <= j /\ j <= Len(s) THEN SubSeq(s, i, j) ELSE ""

-----------------------------------------------------------------------------
(* date_patterns: the six regular expressions, matched at one position.    *)
(* Each returns [end, groups], end being the position after the match, or  *)
(* NoMatch.  Every quantifier of these patterns is followed by a character *)
(* its own class excludes, so a position has at most one match, the one    *)
(* whose quantifiers each take all they can.                               *)

NoMatch == [end |-> 0, groups |-> <<>>]

DateSeparators == {"/", "-"}

OrdinalSuffixes == {"st", "nd", "rd", "th"}

MonthAbbreviationSet == {MonthAbbreviations[k] : k \in 1..Len(MonthAbbreviations)}

\* The position after the digits that start at i.
DigitsEnd(s, i) == i + DigitRun(s, i)

\* The position after (?:st|nd|rd|th)? at e.
SuffixEnd(s, e) == IF Slice(s, e, e + 1) \in OrdinalSuffixes THEN e + 2 ELSE e

\* The position after (of\s+)? at sp.
OfEnd(s, sp) ==
    IF Slice(s, sp, sp + 1) = "of" /\ IsSpace(s, sp + 2) THEN SpaceEnd(s, sp + 2) ELSE sp

\* \b(\d{first})[separators](\d{second})[/-](\d{third})\b
ThreeNumbers(s, i, first, second, third) ==
    LET Found(j, k, end) ==
            IF /\ WordBoundary(s, i)
               /\ j - 1 - i \in first /\ CharAt(s, j - 1) \in DateSeparators
               /\ k - 1 - j \in second /\ CharAt(s, k - 1) \in DateSeparators
               /\ end - k \in third /\ WordBoundary(s, end)
            THEN [end |-> end,
                  groups |-> <<Slice(s, i, j - 2), Slice(s, j, k - 2), Slice(s, k, end - 1)>>]
            ELSE NoMatch
    IN  Found(DigitsEnd(s, i) + 1,
              DigitsEnd(s, DigitsEnd(s, i) + 1) + 1,
              DigitsEnd(s, DigitsEnd(s, DigitsEnd(s, i) + 1) + 1))

\* \b(\d{1,2})[/-](\d{1,2})[/-](\d{2,4})\b
MatchNumericWithYear(s, i) == ThreeNumbers(s, i, 1..2, 1..2, 2..4)

\* \b(\d{4})[/-](\d{1,2})[/-](\d{1,2})\b
MatchYearFirst(s, i) == ThreeNumbers(s, i, {4}, 1..2, 1..2)

\* \b(jan|...|dec)\w*\s+(\d{1,2})(?:st|nd|rd|th)?\b
MatchMonthDay(s, i) ==
    LET Found(w, sp, e, end) ==
            IF /\ WordBoundary(s, i)
               /\ Slice(s, i, i + 2) \in MonthAbbreviationSet
               /\ sp > w
               /\ e - sp \in 1..2
               /\ ~IsWord(s, end)
            THEN [end |-> end, groups |-> <<Slice(s, i, i + 2), Slice(s, sp, e - 1)>>]
            ELSE NoMatch
    IN  Found(WordEnd(s, i + 3),
              SpaceEnd(s, WordEnd(s, i + 3)),
              DigitsEnd(s, SpaceEnd(s, WordEnd(s, i + 3))),
              SuffixEnd(s, DigitsEnd(s, SpaceEnd(s, WordEnd(s, i + 3)))))

\* \b(\d{1,2})(?:st|nd|rd|th)?\s+(of\s+)?(jan|...|dec)\w*\b when of is TRUE,
\* \b(\d{1,2})(?:st|nd|rd|th)?\s+(jan|...|dec)\w*\b when it is FALSE.
\* The group (of\s+) is the empty string here when it took no part.
DayThenMonth(s, i, of) ==
    LET Found(e, e2, sp, m) ==
            IF /\ WordBoundary(s, i)
               /\ e - i \in 1..2
               /\ sp > e2
               /\ Slice(s, m, m + 2) \in MonthAbbreviationSet
            THEN [end |-> WordEnd(s, m + 3),
                  groups |-> IF of
                             THEN <<Slice(s, i, e - 1), Slice(s, sp, m - 1), Slice(s, m, m + 2)>>
                             ELSE <<Slice(s, i, e - 1), Slice(s, m, m + 2)>>]
            ELSE NoMatch
    IN  Found(DigitsEnd(s, i),
              SuffixEnd(s, DigitsEnd(s, i)),
              SpaceEnd(s, SuffixEnd(s, DigitsEnd(s, i))),
              IF of THEN OfEnd(s, SpaceEnd(s, SuffixEnd(s, DigitsEnd(s, i))))
              ELSE SpaceEnd(s, SuffixEnd(s, DigitsEnd(s, i))))

MatchDayMonth(s, i) == DayThenMonth(s, i, FALSE)

\* \b(\d{1,2})[/.-](\d{1,2})\b
MatchMonthSlashDay(s, i) ==
    LET Found(j, end) ==
            IF /\ WordBoundary(s, i)
               /\ j - 1 - i \in 1..2 /\ CharAt(s, j - 1) \in (DateSeparators \cup {"."})
               /\ end - j \in 1..2 /\ WordBoundary(s, end)
            THEN [end |-> end, groups |-> <<Slice(s, i, j - 2), Slice(s, j, end - 1)>>]
            ELSE NoMatch
    IN  Found(DigitsEnd(s, i) + 1, DigitsEnd(s, DigitsEnd(s, i) + 1))

MatchDayOfMonth(s, i) == DayThenMonth(s, i, TRUE)

\* The number of entries of date_patterns.
NumDatePatterns == 6

MatchDateAt(pattern, s, i) ==
    CASE pattern = 1 -> MatchNumericWithYear(s, i)
      [] pattern = 2 -> MatchYearFirst(s, i)
      [] pattern = 3 -> MatchMonthDay(s, i)
      [] pattern = 4 -> MatchDayMonth(s, i)
      [] pattern = 5 -> MatchMonthSlashDay(s, i)
      [] pattern = 6 -> MatchDayOfMonth(s, i)

\* The least number of a set of numbers that is not empty.
Least(numbers) == CHOOSE n \in numbers : \A other \in numbers : n <= other

\* The matches among at, which gives every position of s its match or
\* NoMatch, from position i on, left to right, none overlapping another;
\* each is [text (group(0)), groups].
RECURSIVE MatchesFrom(_, _, _)
MatchesFrom(s, at, i) ==
    LET Take(j) ==
            <<[text |-> SubSeq(s, j, at[j].end - 1), groups |-> at[j].groups]>>
                \o MatchesFrom(s, at, at[j].end)
        First(later) == IF later = {} THEN <<>> ELSE Take(Least(later))
    IN  First({j \in DOMAIN at : j >= i /\ at[j].end > 0})

\* re.finditer(pattern, text)
finditer(pattern, s) ==
    MatchesFrom(s, [i \in 1..Len(s) |-> MatchDateAt(pattern, s, i)], 1)

\* The candidates in the order _extract_explicit_date's two loops visit them.
RECURSIVE DateCandidates(_, _)
DateCandidates(text, pattern) ==
    IF pattern > NumDatePatterns THEN <<>>
    ELSE finditer(pattern, text) \o DateCandidates(text, pattern + 1)

\* \b(\d{1,2})(?:st|nd|rd|th)?\b matched at i
DayMatchAt(s, i) ==
    /\ WordBoundary(s, i)
    /\ DigitRun(s, i) \in 1..2
    /\ \/ ~IsWord(s, DigitsEnd(s, i))
       \/ SuffixEnd(s, DigitsEnd(s, i)) > DigitsEnd(s, i)
              /\ ~IsWord(s, SuffixEnd(s, DigitsEnd(s, i)))

\* re.search(r'\b(\d{1,2})(?:st|nd|rd|th)?\b', text).group(1), "" for no match.
SearchDay(s) ==
    LET FirstOf(hits) ==
            IF hits = {} THEN "" ELSE SubSeq(s, Least(hits), DigitsEnd(s, Least(hits)) - 1)
    IN  FirstOf({i \in 1..Len(s) : DayMatchAt(s, i)})

-----------------------------------------------------------------------------
(* Explicit dates.                                                         *)

Before(d, e) == ToOrdinal(d) < ToOrdinal(e)

\* The try block shared by _parse_month_day and the two-group case of
\* _parse_date_match: this year's date, next year's when it has passed, and
\* None when either datetime() raises ValueError.
ThisYearOrNext(self, month, day) ==
    LET year == self.today.year
        date_obj == datetime(year, month, day)
    IN  IF IsException(date_obj) THEN NoneValue
        ELSE IF Before(date_obj, self.current_date)
             THEN LET rolled == datetime(year + 1, month, day)
                  IN  IF IsException(rolled) THEN NoneValue ELSE rolled
             ELSE date_obj

_parse_month_day(self, text) ==
    LET Parsed(found, day_match) ==
            IF found = {} \/ day_match = "" THEN NoneValue
            ELSE ThisYearOrNext(self, months[Least(found)][2], int(day_match))
    IN  Parsed({k \in 1..Len(months) : Contains(text, months[k][1])}, SearchDay(text))

\* MM/DD/YYYY first, DD/MM/YYYY when that is no date; a year below 100 is 20YY.
MonthFirstThenDayFirst(part1, part2, part3) ==
    LET year == IF int(part3) < 100 THEN int(part3) + 2000 ELSE int(part3)
        month_first == datetime(year, int(part1), int(part2))
        day_first == datetime(year, int(part2), int(part1))
    IN  IF ~IsException(month_first) THEN month_first
        ELSE IF ~IsException(day_first) THEN day_first
        ELSE NoneValue

\* match is [text, groups].  The YYYY/MM/DD case assigns year, month and day
\* and builds no date from them: it falls through to the final return None.
_parse_date_match(self, match) ==
    LET groups == match.groups
        text == lower(match.text)
    IN  IF \E k \in 1..Len(MonthAbbreviations) : Contains(text, MonthAbbreviations[k])
        THEN _parse_month_day(self, text)
        ELSE IF Len(groups) = 2
        THEN ThisYearOrNext(self, int(groups[1]), int(groups[2]))
        ELSE IF Len(groups) = 3
        THEN IF Len(groups[1]) = 4
             THEN NoneValue
             ELSE MonthFirstThenDayFirst(groups[1], groups[2], groups[3])
        ELSE NoneValue

\* except (ValueError, TypeError) around one candidate
CaughtPerCandidate(e) == e.exception \in {"ValueError", "TypeError"}

\* The first candidate, in order, whose date is on or after current_date; an
\* exception the per-candidate handler does not catch leaves the function.
RECURSIVE FirstUsableDate(_, _, _)
FirstUsableDate(self, candidates, k) ==
    LET Parsed(date_obj) ==
            IF IsException(date_obj)
            THEN IF CaughtPerCandidate(date_obj)
                 THEN FirstUsableDate(self, candidates, k + 1)
                 ELSE date_obj
            ELSE IF IsDate(date_obj) /\ ~Before(date_obj, self.current_date)
            THEN [date |-> date_obj,
                  days |-> ToOrdinal(date_obj) - ToOrdinal(self.current_date),
                  original |-> candidates[k].text]
            ELSE FirstUsableDate(self, candidates, k + 1)
    IN  IF k > Len(candidates) THEN NoneValue
        ELSE Parsed(_parse_date_match(self, candidates[k]))

-----------------------------------------------------------------------------
(* Time phrases, urgency keywords, context.                                *)

\* The first key of time_patterns that re.search finds between word
\* boundaries, as its index, 0 for none.
FirstTimePattern(text) ==
    LET FirstOf(hits) == IF hits = {} THEN 0 ELSE Least(hits)
    IN  FirstOf({k \in 1..Len(time_patterns) : SearchWord(time_patterns[k], text)})

\* The confidence and base urgency _find_time_patterns gives a pattern.
TimePatternTier(pattern) ==
    IF pattern \in {"today", "tonight", "tomorrow"}
    THEN [confidence |-> 95, base_urgency |-> 9]
    ELSE IF pattern \in {"this week", "end of week", "eow"}
    THEN [confidence |-> 85, base_urgency |-> 7]
    ELSE IF pattern \in {"next week", "next weeks"}
    THEN [confidence |-> 80, base_urgency |-> 5]
    ELSE IF Slice(pattern, 1, 5) = "next "
    THEN [confidence |-> 90, base_urgency |-> 6]
    ELSE IF pattern \in {"monday", "tuesday", "wednesday", "thursday", "friday",
                         "saturday", "sunday"}
    THEN [confidence |-> 85, base_urgency |-> 6]
    ELSE [confidence |-> 75, base_urgency |-> 4]

RECURSIVE SumScores(_)
SumScores(found) == IF found = <<>> THEN 0 ELSE Head(found)[2] + SumScores(Tail(found))

RECURSIVE MaxScore(_)
MaxScore(found) ==
    IF found = <<>> THEN 0
    ELSE LET rest == MaxScore(Tail(found))
         IN  IF Head(found)[2] > rest THEN Head(found)[2] ELSE rest

Min(a, b) == IF a < b THEN a ELSE b

Max(a, b) == IF a > b THEN a ELSE b

KeywordFound(text, entry) == SearchWord(entry[1], text)

\* The highest single score, less up to 2 for further keywords.
KeywordScoreLessBonus(found) ==
    IF SumScores(found) = 0 THEN 0
    ELSE IF Len(found) > 1
    THEN Max(0, MaxScore(found) - Min(2, Len(found) - 1))
    ELSE MaxScore(found)

\* normalized_score before the boosters: the highest single score, and up to
\* 2 more for further keywords.
KeywordScore(found) ==
    IF SumScores(found) = 0 THEN 0
    ELSE IF Len(found) > 1
    THEN Min(10, MaxScore(found) + Min(2, Len(found) - 1))
    ELSE MaxScore(found)

\* "Context-based urgency boosters"
Boosted(text, normalized_score) ==
    IF \E word \in {"!", "!!", "asap", "now"} : Contains(text, word)
    THEN Min(10, normalized_score + 1) ELSE normalized_score

\* "Ensure minimum urgency"
Floored(text, normalized_score) ==
    IF \E word \in {"critical", "emergency", "urgent"} : Contains(text, word)
    THEN Max(8, normalized_score) ELSE normalized_score

_analyze_urgency(text) ==
    LET Analysis(found) ==
            [score |-> Floored(text, Boosted(text, KeywordScore(found))),
             keywords |-> [k \in 1..Len(found) |-> found[k][1]]]
    IN  Analysis(SelectSeq(urgency_keywords, LAMBDA entry : KeywordFound(text, entry)))

InCategory(text, category) ==
    \E k \in 1..Len(context_patterns[category]) :
        Contains(text, context_patterns[category][k])

_analyze_context(text) ==
    LET context_info(work, meeting, development, personal) ==
            [is_work_related |-> work,
             is_meeting_related |-> meeting,
             is_development_related |-> development,
             is_personal_related |-> personal,
             urgency_boost |-> (IF meeting THEN 2 ELSE 0) + (IF personal THEN 1 ELSE 0),
             confidence_boost |-> (IF work THEN 10 ELSE 0) + (IF meeting THEN 15 ELSE 0)
                                      + (IF development THEN 10 ELSE 0)]
    IN  context_info(InCategory(text, "work_related"),
                     InCategory(text, "meeting_related"),
                     InCategory(text, "development_related"),
                     InCategory(text, "personal_related"))

-----------------------------------------------------------------------------
(* The inputs of the model.                                                *)

\* The first days the sessions of the model start on: the Mondays of the
\* week of the specification's example (2025-01-15), of a leap week and of a
\* week that crosses the year's end.
AnchorDays ==
    {[year |-> 2025, month |-> 1, day |-> 13],
     [year |-> 2024, month |-> 2, day |-> 26],
     [year |-> 2025, month |-> 12, day |-> 29]}

\* A session starts on an anchor day or up to MaxStartOffset days after it.
MaxStartOffset == 6

\* The wall clock runs at most MaxClockAdvance days past the day the
\* session's parser was built.
MaxClockAdvance == 1

StartDays == {AddDays(anchor, k) : anchor \in AnchorDays, k \in 0..MaxStartOffset}

\* Reasoning strings the parser itself produces, which a caller may hand
\* back to it as a text.
ReasoningTexts ==
    {"Explicit date found: 6/10", "Explicit date found: 12/25",
     "Time-specific pattern detected: 'today' -> 0 days from today",
     "Time-specific pattern detected: 'tomorrow' -> 1 days from today",
     "No specific urgency indicators found - using standard 1-week timeline",
     "Medium urgency detected (score: 6/10) - within week",
     "Extreme urgency detected (score: 10/10) - immediate action required (Development task: realistic timeline applied)",
     "Error occurred, using fallback: 'NoneType' object has no attribute 'lower'"}

\* The texts handed to suggest_due_date: those of test_comprehensive.py and
\* of the specification's examples, variations of them, and ReasoningTexts.
TaskTexts ==
    {"", "   ", "some task", "read a book", "backlog grooming", "weekend plans",
     "fix bugs next week", "fix bugs next weeks", "meeting next week",
     "meeting next weeks", "schedule call next week", "review code next week",
     "schedule review next week", "next week", "next weeks",
     "plan next week", "plan next weeks", "Next Week!",
     "critical issue ASAP", "emergency fix now", "fix critical bug ASAP",
     "critical bug ASAP", "urgent", "security audit", "urgent call",
     "critical deploy", "outage!", "important: fix critical bug ASAP!",
     "meeting tomorrow", "meeting tomorrow at 2pm", "call client tomorrow",
     "critical client meeting tomorrow ASAP", "status today", "day after tomorrow",
     "task this week", "submit report end of week", "eow review",
     "party saturday", "trip sunday", "urgent trip saturday", "meeting on Monday",
     "deadline next Friday", "next wednesday sync", "next sunday",
     "plan vacation in a month", "in a week", "in 2 weeks", "in a year",
     "pay rent end of month", "research next month", "quarterly review next month",
     "call client 12/25/2024", "invalid date 13/45/2024", "due 01/20/2025",
     "due 1/20/25", "due 25/12/2026", "due 02/01/2026", "ship 3/4",
     "submit report by 2025-02-01", "submit report by 2026-02-01",
     "audit 2020-02-01", "pay march 15", "pay 15th of march", "jan 10 review",
     "feb 29 party", "Dec 31st", "june 31", "release v1.2 on 32/1",
     "tonight", "next monday", "next tuesday", "next thursday", "next friday",
     "next saturday", "tuesday", "wednesday", "thursday", "friday",
     "in 1 week", "in two weeks", "in a month", "in 1 month", "in two months",
     "in 2 months", "end of month", "eom", "next month", "in 1 year",
     "deploy", "deploy backlog", "priority", "important", "soon", "design",
     "research", "yearly", "hello!",
     "report 13/45/2024 tomorrow", "13/45/2024 or 3/4", "due 25/12/2024"}
    \cup ReasoningTexts

\* What a caller may pass: a str, or an object that is no str.
TaskInputs == {Str(t) : t \in TaskTexts} \cup {NoneValue}

-----------------------------------------------------------------------------
(* What suggest_due_date reads off the lower-cased, stripped text alone.   *)
(* The table holds it for the texts of the model, so that a text is        *)
(* scanned once.                                                           *)

TextScan(text) ==
    [candidates |-> DateCandidates(text, 1),
     time |-> FirstTimePattern(text),
     urgency |-> _analyze_urgency(text),
     context |-> _analyze_context(text)]

ScanTable == [text \in {strip(lower(t)) : t \in TaskTexts} |-> TextScan(text)]

Scan(text) == ScanTable[text]

_extract_explicit_date(self, text) == FirstUsableDate(self, Scan(text).candidates, 1)

\* A time match whose date lies one day past today + days.
TimeMatchDayLater(self, pattern, days) ==
    [date |-> AddDays(self.today, days + 1),
     days |-> days,
     confidence |-> TimePatternTier(pattern).confidence,
     base_urgency |-> TimePatternTier(pattern).base_urgency,
     reasoning |-> "Time-specific pattern detected: '" \o pattern
                       \o "' -> " \o ToString(days) \o " days from today"]

\* The dictionary _find_time_patterns returns for a key of time_patterns.
\* The arrow of the reasoning string is written -> here.
TimeMatch(self, pattern, days) ==
    [date |-> AddDays(self.today, days),
     days |-> days,
     confidence |-> TimePatternTier(pattern).confidence,
     base_urgency |-> TimePatternTier(pattern).base_urgency,
     reasoning |-> "Time-specific pattern detected: '" \o pattern
                       \o "' -> " \o ToString(days) \o " days from today"]

_find_time_patterns(self, text) ==
    LET Found(first) ==
            IF first = 0 THEN NoneValue
            ELSE TimeMatch(self, time_patterns[first],
                           time_pattern_days(self, time_patterns[first]))
    IN  Found(Scan(text).time)

-----------------------------------------------------------------------------
(* The result record and the public entry point.                           *)

\* The score _create_result derives from days_from_now when it is given
\* none; int() truncates 10 - days/7 towards zero.
UrgencyFromDays(days_from_now) ==
    IF days_from_now = 0 THEN 10
    ELSE IF days_from_now = 1 THEN 9
    ELSE IF days_from_now <= 2 THEN 8
    ELSE IF days_from_now <= 3 THEN 7
    ELSE IF days_from_now <= 5 THEN 6
    ELSE IF days_from_now <= 7 THEN 5
    ELSE IF days_from_now <= 14 THEN 4
    ELSE Max(1, IF days_from_now <= 70
                THEN 10 - ((days_from_now + 6) \div 7)
                ELSE 0 - ((days_from_now - 70) \div 7))

\* The label by the values of the UrgencyLevel enumeration: CRITICAL = 10,
\* HIGH = 8, MEDIUM = 6, LOW = 4.
UrgencyLevelByValue(urgency_score) ==
    IF urgency_score >= 10 THEN "CRITICAL"
    ELSE IF urgency_score >= 8 THEN "HIGH"
    ELSE IF urgency_score >= 6 THEN "MEDIUM"
    ELSE IF urgency_score >= 4 THEN "LOW"
    ELSE "NONE"

UrgencyLevelName(urgency_score) ==
    IF urgency_score >= 9 THEN "CRITICAL"
    ELSE IF urgency_score >= 7 THEN "HIGH"
    ELSE IF urgency_score >= 5 THEN "MEDIUM"
    ELSE IF urgency_score >= 3 THEN "LOW"
    ELSE "NONE"

\* urgency_score is <<>> for the default None and <<score>> otherwise.
_create_result(date_obj, days_from_now, confidence, reasoning, keywords, urgency_score, task_text) ==
    LET score == IF urgency_score = <<>> THEN UrgencyFromDays(days_from_now)
                 ELSE urgency_score[1]
    IN  [kind |-> "returned",
         suggested_date |-> date_obj,
         days_from_now |-> days_from_now,
         confidence |-> Min(100, Max(0, confidence)),
         urgency_score |-> Min(10, Max(0, score)),
         urgency_level |-> UrgencyLevelName(score),
         reasoning |-> reasoning,
         keywords_found |-> keywords,
         task_text |-> task_text]

\* A fixed descending table from urgency 10, 0 days, to urgency 0, 30 days.
DaysByDescendingTable(self, final_urgency, context_analysis) ==
    <<30, 21, 14, 10, 7, 5, 3, 2, 1, 1, 0>>[final_urgency + 1]

\* The day-offset of the keyword branch, before the context adjustments.
DaysForUrgency(self, final_urgency, context_analysis) ==
    IF final_urgency >= 9 THEN (IF final_urgency = 10 THEN 0 ELSE 1)
    ELSE IF final_urgency >= 7 THEN (IF final_urgency >= 8 THEN 2 ELSE 3)
    ELSE IF final_urgency >= 5 THEN (IF context_analysis.is_work_related THEN 5 ELSE 4)
    ELSE IF final_urgency >= 3 THEN self.days_to_next_monday
    ELSE 7

ReasoningForUrgency(final_urgency) ==
    IF final_urgency >= 9
    THEN "Extreme urgency detected (score: " \o ToString(final_urgency)
             \o "/10) - immediate action required"
    ELSE IF final_urgency >= 7
    THEN "High urgency detected (score: " \o ToString(final_urgency)
             \o "/10) - quick turnaround needed"
    ELSE IF final_urgency >= 5
    THEN "Medium urgency detected (score: " \o ToString(final_urgency)
             \o "/10) - within week"
    ELSE IF final_urgency >= 3
    THEN "Low urgency detected (score: " \o ToString(final_urgency)
             \o "/10) - next week timeline"
    ELSE "No specific urgency indicators found - using standard 1-week timeline"

\* "Apply context adjustments": meetings, development tasks, personal tasks,
\* in this order.
ContextAdjustedDays(days, context_analysis) ==
    LET meeting == IF context_analysis.is_meeting_related THEN Min(days, 3) ELSE days
        development == IF context_analysis.is_development_related
                       THEN Max(meeting, 2) ELSE meeting
    IN  IF context_analysis.is_personal_related THEN Min(development, 5) ELSE development

ContextReasoning(context_analysis) ==
    (IF context_analysis.is_meeting_related
     THEN " (Meeting-related: adjusted for scheduling needs)" ELSE "")
    \o (IF context_analysis.is_development_related
        THEN " (Development task: realistic timeline applied)" ELSE "")
    \o (IF context_analysis.is_personal_related
        THEN " (Personal task: adjusted timeline)" ELSE "")

\* Step 4 of suggest_due_date, from the analyses of step 3.
KeywordSuggestion(self, urgency_analysis, context_analysis, final_urgency, days, task_text) ==
    _create_result(AddDays(self.today, days), days,
                   Min(90, 40 + Min(30, Len(urgency_analysis.keywords) * 10)
                               + context_analysis.confidence_boost),
                   ReasoningForUrgency(final_urgency) \o ContextReasoning(context_analysis),
                   urgency_analysis.keywords, <<final_urgency>>, task_text)

\* Steps 3 and 4.
FromKeywords(self, task_text, urgency_analysis, context_analysis) ==
    LET Suggestion(final_urgency) ==
            KeywordSuggestion(self, urgency_analysis, context_analysis, final_urgency,
                ContextAdjustedDays(
                    DaysForUrgency(self, final_urgency, context_analysis),
                    context_analysis),
                task_text)
    IN  Suggestion(Max(urgency_analysis.score, context_analysis.urgency_boost))

\* Step 2, and steps 3 and 4 when no time pattern is found.
FromTimePattern(self, task_text, task_lower, time_match, urgency_analysis) ==
    IF time_match # NoneValue
    THEN _create_result(time_match.date, time_match.days, time_match.confidence,
                        time_match.reasoning, urgency_analysis.keywords,
                        <<Max(urgency_analysis.score, time_match.base_urgency)>>,
                        task_text)
    ELSE FromKeywords(self, task_text, urgency_analysis, Scan(task_lower).context)

\* Step 1, and the later steps when no explicit date is found.
FromExplicitDate(self, task_text, task_lower, explicit_date) ==
    IF IsException(explicit_date) THEN explicit_date
    ELSE IF explicit_date # NoneValue
    THEN _create_result(explicit_date.date, explicit_date.days, 95,
                        "Explicit date found: " \o explicit_date.original,
                        <<>>, <<>>, task_text)
    ELSE FromTimePattern(self, task_text, task_lower,
                         _find_time_patterns(self, task_lower),
                         Scan(task_lower).urgency)

\* The body of the try block: a result, or the exception that leaves it.
\* task_text.lower() raises AttributeError on an object that is no str.
TryBlock(self, task_text) ==
    LET Steps(task_lower) ==
            FromExplicitDate(self, task_text, task_lower,
                             _extract_explicit_date(self, task_lower))
    IN  IF task_text.type # "str"
        THEN [exception |-> "AttributeError",
              message |-> "'" \o task_text.type \o "' object has no attribute 'lower'"]
        ELSE Steps(strip(lower(task_text.value)))

\* except (ValueError, TypeError) in the place of except Exception.
CaughtValueOrTypeError(e) == e.exception \in {"ValueError", "TypeError"}

\* except Exception: every exception of the model is one.
CaughtBySuggest(e) == e.exception \in {"AttributeError", "ValueError", "TypeError"}

\* The number of days of the fallback result ("More reasonable than 7 days").
fallback_days == 3

\* An except block that falls back to one week, urgency 3 and confidence 0.1.
FallbackOneWeek(self, e, task_text) ==
    _create_result(AddDays(self.today, 7), 7, 10,
                   "Error occurred, using fallback: " \o e.message,
                   <<>>, <<3>>, task_text)

\* The except block.
Fallback(self, e, task_text) ==
    _create_result(AddDays(self.today, fallback_days), fallback_days, 10,
                   "Error occurred, using fallback: " \o e.message,
                   <<>>, <<>>, task_text)

\* A raised exception is [kind |-> "raised", ...] in the place of a result.
suggest_due_date(self, task_text) ==
    LET Outcome(outcome) ==
            IF ~IsException(outcome) THEN outcome
            ELSE IF CaughtBySuggest(outcome) THEN Fallback(self, outcome, task_text)
            ELSE [kind |-> "raised", exception |-> outcome.exception]
    IN  Outcome(TryBlock(self, task_text))

-----------------------------------------------------------------------------
(* The session: one parser, built when the session starts, called again    *)
(* and again while the wall clock moves on.                                *)

NoResult == [kind |-> "none"]

\* The parsers the sessions of the model hold.
Parsers == {AdvancedAIDateParser(day) : day \in StartDays}

\* suggest_due_date over the parsers and inputs of the model, each call
\* worked out once.
SuggestionTable ==
    [self \in Parsers, task_text \in TaskInputs |-> suggest_due_date(self, task_text)]

\* {}: a dict with no key, a session in which the Trello panel was not used.
EmptyDict == [key \in {} |-> NoneValue]

\* The tables as init_database creates them, with the foreign keys
\* enforced or not as the SQLite library of the build has it.
EmptyDatabase(foreign_keys) == [task_analyses |-> {}, export_history |-> {}, last_task_id |-> 0, last_export_id |-> 0, foreign_keys |-> foreign_keys]

\* The Trello panel before it is used.
TrelloIdle ==
    /\ session_state = EmptyDict
    /\ validation = NoResult
    /\ handler = [name |-> "none", requests |-> <<>>]

Init ==
    /\ now \in StartDays
    /\ parser = AdvancedAIDateParser(now)
    /\ result = NoResult
    /\ called_on = NoneValue
    /\ TrelloIdle
    /\ db = EmptyDatabase(FALSE)

\* A call that first reads the clock again, as __init__ does.
SuggestAndRefresh(task_text) ==
    /\ parser' = AdvancedAIDateParser(now)
    /\ result' = SuggestionTable[parser', task_text]
    /\ called_on' = now
    /\ UNCHANGED <<now, trelloVars, db>>

\* st.session_state.ai_parser.suggest_due_date(checklist_item)
Suggest(task_text) ==
    /\ result' = SuggestionTable[parser, task_text]
    /\ called_on' = now
    /\ UNCHANGED <<now, parser, trelloVars, db>>

\* The reasoning of the last result is handed back as the next text, when it
\* is one of the texts of the model.
SuggestFromReasoning ==
    /\ result.kind = "returned"
    /\ Str(result.reasoning) \in TaskInputs
    /\ result' = SuggestionTable[parser, Str(result.reasoning)]
    /\ called_on' = now
    /\ UNCHANGED <<now, parser, trelloVars, db>>

\* Midnight passes; the parser in the session state is not rebuilt.
Tick ==
    /\ ToOrdinal(now) - ToOrdinal(parser.today) < MaxClockAdvance
    /\ now' = NextDay(now)
    /\ UNCHANGED <<parser, result, called_on, trelloVars, db>>

Next ==
    \/ \E task_text \in TaskInputs : Suggest(task_text)
    \/ SuggestFromReasoning
    \/ Tick

Spec == Init /\ [][Next]_vars

-----------------------------------------------------------------------------
(* The last call, as the properties below read it.                         *)

\* The last call returned a result record.
Returned == result.kind = "returned"

\* The last call was given a str.
GivenText == Returned /\ result.task_text.type = "str"

\* The text of the last call as suggest_due_date reads it.
LastText == strip(lower(result.task_text.value))

\* The last call left the try block by an exception.
Failed == Returned /\ IsException(TryBlock(parser, result.task_text))

\* Step 1 of the last call found an explicit date.
FoundExplicitDate == GivenText /\ "date" \in DOMAIN _extract_explicit_date(parser, LastText)

\* Step 1 of the last call found none.
FoundNoExplicitDate == GivenText /\ _extract_explicit_date(parser, LastText) = NoneValue

\* The last call was decided by the time phrase pattern, in step 2.
DecidedByTimePhrase(pattern) ==
    /\ FoundNoExplicitDate
    /\ Scan(LastText).time # 0
    /\ time_patterns[Scan(LastText).time] = pattern

\* The last call went on to steps 3 and 4, the keyword analysis.
DecidedByKeywords == FoundNoExplicitDate /\ Scan(LastText).time = 0

-----------------------------------------------------------------------------
(* The properties.                                                         *)

\* C1: every result suggest_due_date returns, from an explicit date, a time
\* phrase, the keyword analysis or the error fallback, has
\* suggested_date = the parser's reference date + days_from_now.
C1_DateIsReferencePlusDays ==
    Returned =>
        ToOrdinal(result.suggested_date) = ToOrdinal(parser.today) + result.days_from_now

\* An explicit date with a year was found, months after the reference date.
C1_Witness ==
    /\ FoundExplicitDate
    /\ result.task_text = Str("due 25/12/2026")
    /\ result.suggested_date = [year |-> 2026, month |-> 12, day |-> 25]
    /\ result.days_from_now > 300

\* C2: for every text and reference date, days_from_now >= 0 and
\* suggested_date is not before the parser's reference date; an explicit date
\* that lies in the past is never the suggestion.
C2_NeverBeforeReference ==
    Returned =>
        /\ result.days_from_now >= 0
        /\ ~Before(result.suggested_date, parser.today)
        /\ ~Before(result.suggested_date, parser.current_date)

\* A text whose explicit date, 12/25/2024, lies before the reference date:
\* the suggestion is 12/25 of the reference year.
C2_Witness ==
    /\ Returned
    /\ result.task_text = Str("call client 12/25/2024")
    /\ parser.today.year = 2025
    /\ result.suggested_date = [year |-> 2025, month |-> 12, day |-> 25]

\* C3: when one parser is reused while the wall clock advances between
\* calls, every call's suggested_date is on or after the wall-clock date at
\* the time of that call.
C3_NeverBeforeWallClock ==
    Returned => ~Before(result.suggested_date, called_on)

\* C4: suggest_due_date never raises: every call, on any input, a str or
\* not, its own reasoning handed back included, returns a record with
\* suggested_date, days_from_now, confidence and urgency_score.
C4_NeverRaises ==
    result.kind # "none" =>
        /\ Returned
        /\ {"suggested_date", "days_from_now", "confidence", "urgency_score"}
               \subseteq DOMAIN result

\* A call with an object that is no str returned a result.
C4_Witness == Returned /\ result.task_text = NoneValue /\ called_on = now

ExplicitDateTexts ==
    {[text |-> "due 01/20/2025", date |-> [year |-> 2025, month |-> 1, day |-> 20]],
     [text |-> "due 25/12/2026", date |-> [year |-> 2026, month |-> 12, day |-> 25]],
     [text |-> "call client 12/25/2024",
      date |-> [year |-> 2024, month |-> 12, day |-> 25]],
     [text |-> "submit report by 2025-02-01",
      date |-> [year |-> 2025, month |-> 2, day |-> 1]],
     [text |-> "submit report by 2026-02-01",
      date |-> [year |-> 2026, month |-> 2, day |-> 1]]}

\* C6: for a text with an explicit date, numeric with year or ISO
\* YYYY-MM-DD, that lies on or after the reference date, in any year,
\* suggested_date is exactly that date and confidence >= 0.9.
C6_ExactExplicitDate ==
    \A explicit \in ExplicitDateTexts :
        (/\ Returned
         /\ result.task_text = Str(explicit.text)
         /\ ~Before(explicit.date, parser.today))
        => /\ result.suggested_date = explicit.date
           /\ result.confidence >= 90

\* C7: weekend-shift law: a date that falls on a Saturday or Sunday with
\* urgency_score < 8 is moved to the following Monday, so no result with
\* urgency_score < 8 has its suggested_date on a Saturday or Sunday.
C7_WeekendShift ==
    (Returned /\ result.urgency_score < 8) => Weekday(result.suggested_date) \notin {5, 6}

\* C8: for every reference weekday, a text whose first time phrase is
\* "next week", with no explicit date, gets days_from_now =
\* parser.days_to_next_monday, which is in 1..7 and 7 on a Monday, and
\* suggested_date is the Monday strictly after the reference date.
C8_NextWeekIsNextMonday ==
    DecidedByTimePhrase("next week") =>
        /\ result.days_from_now = parser.days_to_next_monday
        /\ result.days_from_now \in 1..7
        /\ Weekday(parser.today) = 0 => result.days_from_now = 7
        /\ Weekday(result.suggested_date) = 0
        /\ Before(parser.today, result.suggested_date)

\* "next week" asked on a Monday: the Monday a week later.
C8_Witness ==
    /\ DecidedByTimePhrase("next week")
    /\ Weekday(parser.today) = 0
    /\ result.days_from_now = 7

\* Texts of the model with "next week", and the same with "next weeks".
NextWeekPairs ==
    {<<"next week", "next weeks">>,
     <<"fix bugs next week", "fix bugs next weeks">>,
     <<"meeting next week", "meeting next weeks">>,
     <<"plan next week", "plan next weeks">>}

\* C9: "next weeks" is treated as "next week" is: replacing one by the other
\* in a text gives the same days_from_now, suggested_date, confidence and
\* urgency_score.
C9_PluralAsSingular ==
    \A pair \in NextWeekPairs :
        (Returned /\ result.task_text = Str(pair[1])) =>
            /\ SuggestionTable[parser, Str(pair[2])].days_from_now = result.days_from_now
            /\ SuggestionTable[parser, Str(pair[2])].suggested_date = result.suggested_date
            /\ SuggestionTable[parser, Str(pair[2])].confidence = result.confidence
            /\ SuggestionTable[parser, Str(pair[2])].urgency_score = result.urgency_score

\* C10: in the keyword branch, with no explicit date and no time phrase, an
\* urgency_score >= 9 comes with days_from_now <= 1, and an urgency_score of
\* 10 with days_from_now = 0, whichever context categories the text matches.
C10_ExtremeUrgencyIsImmediate ==
    DecidedByKeywords =>
        /\ result.urgency_score >= 9 => result.days_from_now <= 1
        /\ result.urgency_score = 10 => result.days_from_now = 0

\* The analyses of steps 3 and 4 for the text of the last call.
LastUrgency == Scan(LastText).urgency

LastContext == Scan(LastText).context

\* The text of the last call matches no context category.
NoContextMatched ==
    /\ ~LastContext.is_work_related
    /\ ~LastContext.is_meeting_related
    /\ ~LastContext.is_development_related
    /\ ~LastContext.is_personal_related

\* C11: empty or whitespace-only input is not an error: it goes to the
\* keyword branch, matches no keyword, takes the default of that branch, and
\* the confidence of the result is at most 0.3.
C11_EmptyTextLowConfidence ==
    (GivenText /\ LastText = "") =>
        /\ ~Failed
        /\ DecidedByKeywords
        /\ result.keywords_found = <<>>
        /\ result.reasoning
              = "No specific urgency indicators found - using standard 1-week timeline"
        /\ result.confidence <= 30

\* The text of the last call is not empty and holds no cue: no explicit
\* date, no time phrase, no urgency keyword and no context word.
NoCue ==
    /\ DecidedByKeywords
    /\ LastText # ""
    /\ LastUrgency.keywords = <<>>
    /\ NoContextMatched

\* C12: for every non-empty text with no recognizable cue, urgency_score is
\* in 1..5 and days_from_now is in 3..10.
C12_BoundedDefault ==
    NoCue =>
        /\ result.urgency_score \in 1..5
        /\ result.days_from_now \in 3..10

\* C13: on every reference weekday (Monday = 0), "this week" and
\* "end of week" resolve to (4 - weekday) mod 7 days, the coming Friday, and
\* to 0 days, due today, when the reference date is itself a Friday.
C13_EndOfWeekIsComingFriday ==
    (DecidedByTimePhrase("this week") \/ DecidedByTimePhrase("end of week")) =>
        /\ result.days_from_now = (4 - Weekday(parser.today)) % 7
        /\ Weekday(result.suggested_date) = 4
        /\ Weekday(parser.today) = 4 => result.days_from_now = 0

\* C14: on every reference weekday, a text whose time phrase is "this week"
\* gets days_from_now between 0 and 5 inclusive.
C14_ThisWeekWithinFiveDays ==
    DecidedByTimePhrase("this week") => result.days_from_now \in 0..5

\* The weekdays after Monday, by their index.
WeekdayNames ==
    <<"tuesday", "wednesday", "thursday", "friday", "saturday", "sunday">>

\* C15: on every reference weekday and for every weekday W other than
\* Monday, of index k, "next W" resolves to the offset of the next Monday
\* plus k days: W in the week that starts on the following Monday.
C15_NextWeekdayIsInNextWeek ==
    \A k \in 1..6 :
        DecidedByTimePhrase("next " \o WeekdayNames[k]) =>
            /\ result.days_from_now = parser.days_to_next_monday + k
            /\ Weekday(result.suggested_date) = k

\* The time phrase that decided the last call, "" when none did.
LastTimePhrase ==
    IF FoundNoExplicitDate /\ Scan(LastText).time # 0
    THEN time_patterns[Scan(LastText).time] ELSE ""

\* C16: whenever a time phrase decides the result, urgency_score is the
\* maximum of the phrase's base urgency and the urgency the keywords of the
\* same text give, and is never below 5, for every phrase of the catalogue.
C16_TimePhraseUrgencyAtLeastFive ==
    LastTimePhrase # "" =>
        /\ result.urgency_score
              = Max(LastUrgency.score, TimePatternTier(LastTimePhrase).base_urgency)
        /\ result.urgency_score >= 5

\* C17: when an explicit date decides the result, urgency_score follows from
\* how soon the date is alone: in 8..10 when days_from_now <= 1, 6 when
\* days_from_now is in 2..7, and 4 when days_from_now > 7.
C17_ExplicitDateUrgencyBySoonness ==
    FoundExplicitDate =>
        /\ result.days_from_now <= 1 => result.urgency_score \in 8..10
        /\ result.days_from_now \in 2..7 => result.urgency_score = 6
        /\ result.days_from_now > 7 => result.urgency_score = 4

\* The texts of the model as suggest_due_date reads them.
ScannedTexts == DOMAIN ScanTable

\* The elements of a sequence.
Range(seq) == {seq[k] : k \in DOMAIN seq}

\* For a text, the texts of the model that hold it and match every urgency
\* keyword it matches: the text with more words, and so with as many
\* keywords or more.
TextsWithMoreKeywords ==
    [s \in ScannedTexts |->
        {t \in ScannedTexts :
            /\ Contains(t, s)
            /\ Range(ScanTable[s].urgency.keywords) \subseteq Range(ScanTable[t].urgency.keywords)}]

\* The entries of urgency_keywords, keyword and score, for a set of keywords.
FoundEntries(keywords) == SelectSeq(urgency_keywords, LAMBDA entry : entry[1] \in keywords)

\* final_urgency of step 4 for a text.
FinalUrgency(text) == Max(Scan(text).urgency.score, Scan(text).context.urgency_boost)

\* Raising the score of one entry of found never lowers KeywordScore.
RaisingNeverLowers(found) ==
    \A k \in 1..Len(found) : \A severity \in found[k][2]..10 :
        KeywordScore([found EXCEPT ![k] = <<found[k][1], severity>>]) >= KeywordScore(found)

\* Every text that holds text s and matches its keywords scores at least as
\* s does, in _analyze_urgency and in final_urgency.
MoreNeverLowers(s) ==
    \A t \in TextsWithMoreKeywords[s] :
        /\ Scan(t).urgency.score >= Scan(s).urgency.score
        /\ FinalUrgency(t) >= FinalUrgency(s)

KeywordsWithoutContext == DecidedByKeywords /\ NoContextMatched

\* C19, as stated: in the keyword branch with no context category matched,
\* the day offset for final urgency u lies in the range a fixed descending
\* table gives u: 10 -> 0, 9 -> 0..1, 8 -> 1, 7 -> 2..3, 6 -> 3..5, 5 -> 5..7,
\* 4 -> 7..10, 3 -> 10..14, 2 -> 14..21, 1 -> 21..30, 0 -> 30.
C19_DescendingTable ==
    KeywordsWithoutContext =>
        result.days_from_now \in
            <<{30}, 21..30, 14..21, 10..14, 7..10, 5..7, 3..5, 2..3, {1}, 0..1, {0}>>
                [result.urgency_score + 1]

\* C19, as the code has it: in the keyword branch with no context category
\* matched, the day offset for final urgency u is 0 for 10, 1 for 9, 2 for 8,
\* 3 for 7, 4 for 6 and 5, the offset to the next Monday, in 1..7, for 4 and
\* 3, and 7 for 2, 1 and 0.
C19_TiersOfTheCode ==
    KeywordsWithoutContext =>
        /\ result.urgency_score \in 0..10
        /\ result.urgency_score = 10 => result.days_from_now = 0
        /\ result.urgency_score = 9 => result.days_from_now = 1
        /\ result.urgency_score = 8 => result.days_from_now = 2
        /\ result.urgency_score = 7 => result.days_from_now = 3
        /\ result.urgency_score \in 5..6 => result.days_from_now = 4
        /\ result.urgency_score \in 3..4 =>
              /\ result.days_from_now = parser.days_to_next_monday
              /\ result.days_from_now \in 1..7
              /\ Weekday(result.suggested_date) = 0
        /\ result.urgency_score \in 0..2 => result.days_from_now = 7

\* A text with the one keyword "priority", urgency 8, is due in 2 days.
C19_Witness ==
    /\ KeywordsWithoutContext
    /\ result.keywords_found = <<"priority">>
    /\ result.urgency_score = 8
    /\ result.days_from_now = 2

\* C20: when a time phrase decides the result, confidence is tiered by the
\* phrase: today, tonight and tomorrow in 0.9..0.95; the this-week and
\* next-week family in 0.75..0.85; the weekday names exactly 0.85; every
\* other phrase of the catalogue exactly 0.7.
C20_ConfidenceTiers ==
    LastTimePhrase # "" =>
        IF LastTimePhrase \in {"today", "tonight", "tomorrow"}
        THEN result.confidence \in 90..95
        ELSE IF LastTimePhrase \in {"this week", "end of week", "eow", "next week", "next weeks"}
        THEN result.confidence \in 75..85
        ELSE IF LastTimePhrase \in {"monday", "tuesday", "wednesday", "thursday", "friday",
                                    "saturday", "sunday"}
        THEN result.confidence = 85
        ELSE result.confidence = 70

\* C21: every result suggest_due_date returns has a confidence in [0, 1]
\* (0..100 hundredths), an integer urgency_score in 0..10, and the
\* urgency_level that goes with the score: CRITICAL from 9, HIGH from 7,
\* MEDIUM from 5, LOW from 3, NONE below.
C21_ResultRanges ==
    Returned =>
        /\ result.confidence \in 0..100
        /\ result.urgency_score \in 0..10
        /\ result.urgency_level = "CRITICAL" <=> result.urgency_score >= 9
        /\ result.urgency_level = "HIGH" <=> result.urgency_score \in 7..8
        /\ result.urgency_level = "MEDIUM" <=> result.urgency_score \in 5..6
        /\ result.urgency_level = "LOW" <=> result.urgency_score \in 3..4
        /\ result.urgency_level = "NONE" <=> result.urgency_score \in 0..2

\* A result of urgency 9, one below the top, labelled CRITICAL.
C21_Witness ==
    /\ Returned
    /\ result.urgency_score = 9
    /\ result.urgency_level = "CRITICAL"
    /\ result.confidence \in 1..99

MalformedDateTexts ==
    {[text |-> "invalid date 13/45/2024", malformed |-> {"13/45/2024", "13/45"},
      then |-> ""],
     [text |-> "june 31", malformed |-> {"june 31"}, then |-> ""],
     [text |-> "report 13/45/2024 tomorrow", malformed |-> {"13/45/2024", "13/45"},
      then |-> "tomorrow"],
     [text |-> "13/45/2024 or 3/4", malformed |-> {"13/45/2024", "13/45"},
      then |-> "Explicit date found: 3/4"],
     [text |-> "release v1.2 on 32/1", malformed |-> {"32/1"}, then |-> ""]}

\* The candidates, in the order of _extract_explicit_date, that have one of
\* the given texts.
CandidatesAmong(candidates, texts) ==
    {k \in 1..Len(candidates) : candidates[k].text \in texts}

\* C23: an explicit-date candidate that is no valid calendar date is skipped
\* without raising: no date is taken from it, the search goes on with the
\* other candidates and patterns, and then the time phrases and the keyword
\* branch decide.
C23_MalformedCandidateSkipped ==
    \A m \in MalformedDateTexts :
        (Returned /\ result.task_text = Str(m.text)) =>
            /\ ~Failed
            /\ CandidatesAmong(Scan(LastText).candidates, m.malformed) # {}
            /\ \A k \in CandidatesAmong(Scan(LastText).candidates, m.malformed) :
                  _parse_date_match(parser, Scan(LastText).candidates[k]) = NoneValue
            /\ \A text \in m.malformed :
                  result.reasoning # "Explicit date found: " \o text
            /\ IF Slice(m.then, 1, 8) = "Explicit"
               THEN FoundExplicitDate /\ result.reasoning = m.then
               ELSE IF m.then # ""
               THEN DecidedByTimePhrase(m.then)
               ELSE DecidedByKeywords

\* "13/45/2024 or 3/4": the malformed candidates are passed over and the
\* date is taken from the candidate after them.
C23_Witness ==
    /\ Returned
    /\ result.task_text = Str("13/45/2024 or 3/4")
    /\ result.reasoning = "Explicit date found: 3/4"
    /\ result.suggested_date.month = 3
    /\ result.suggested_date.day = 4

\* Texts of the model with an explicit date, by the month and day they
\* state and the year, 0 when they state none.
StatedDateTexts ==
    {[text |-> "pay march 15", year |-> 0, month |-> 3, day |-> 15],
     [text |-> "pay 15th of march", year |-> 0, month |-> 3, day |-> 15],
     [text |-> "jan 10 review", year |-> 0, month |-> 1, day |-> 10],
     [text |-> "ship 3/4", year |-> 0, month |-> 3, day |-> 4],
     [text |-> "call client 12/25/2024", year |-> 2024, month |-> 12, day |-> 25],
     [text |-> "due 01/20/2025", year |-> 2025, month |-> 1, day |-> 20],
     [text |-> "due 25/12/2024", year |-> 2024, month |-> 12, day |-> 25]}

\* The date a text states, in the reference year when it states no year.
StatedDate(self, stated) ==
    [year |-> IF stated.year = 0 THEN self.today.year ELSE stated.year,
     month |-> stated.month, day |-> stated.day]

\* The month and day in the first year in which they are on or after the
\* reference date.
RolledForward(self, month, day) ==
    IF Before([year |-> self.today.year, month |-> month, day |-> day], self.today)
    THEN [year |-> self.today.year + 1, month |-> month, day |-> day]
    ELSE [year |-> self.today.year, month |-> month, day |-> day]

\* C24: an explicit date whose month and day have passed, stated without a
\* year or with the reference year or an earlier one, is rolled forward: the
\* suggestion is the same month and day in the next year in which they are
\* on or after the reference date.
C24_PassedDateRolledForward ==
    \A stated \in StatedDateTexts :
        (/\ Returned
         /\ result.task_text = Str(stated.text)
         /\ Before(StatedDate(parser, stated), parser.today))
        => result.suggested_date = RolledForward(parser, stated.month, stated.day)

\* C26: a vague text, with no explicit date, no time phrase and no urgency
\* keyword, gets a confidence between 0.1 and 0.4 inclusive, whichever
\* context words it holds.
C26_VagueTextLowConfidence ==
    (DecidedByKeywords /\ LastUrgency.keywords = <<>>) => result.confidence \in 10..40

\* C27: a text with "day after tomorrow", and no explicit date, "today" or
\* "tonight", gets days_from_now = 2, the offset time_patterns declares for
\* the phrase, although the phrase holds the earlier key "tomorrow".
C27_DayAfterTomorrowIsTwoDays ==
    (/\ FoundNoExplicitDate
     /\ SearchWord("day after tomorrow", LastText)
     /\ ~SearchWord("today", LastText)
     /\ ~SearchWord("tonight", LastText))
    => /\ result.days_from_now = 2
       /\ result.suggested_date = AddDays(parser.today, 2)

\* The last result has the urgency _create_result derives from
\* days_from_now: it came from an explicit date or from the fallback.
UrgencyDerivedFromDays == FoundExplicitDate \/ Failed

\* C28: when _create_result derives urgency_score from days_from_now, the
\* score is non-increasing in days_from_now over all offsets >= 0: no
\* earlier due date has a lower urgency than the one of the result.
C28_UrgencyNonIncreasingInDays ==
    UrgencyDerivedFromDays =>
        /\ result.urgency_score = UrgencyFromDays(result.days_from_now)
        /\ \A earlier \in 0..result.days_from_now :
              UrgencyFromDays(earlier) >= result.urgency_score

-----------------------------------------------------------------------------
(* The Trello client: TrelloAPI.test_connection and                        *)
(* validate_trello_credentials (src/app/trello_api.py).  What the Trello   *)
(* server answers is an input of the model.                                *)

\* s * n
RECURSIVE Repeat(_, _)
Repeat(s, n) == IF n = 0 THEN "" ELSE s \o Repeat(s, n - 1)

\* str.isalnum, for the ASCII texts of the model
isalnum(s) == Len(s) > 0 /\ \A i \in 1..Len(s) : CharAt(s, i) \in LowerLetters \cup UpperLetters \cup Digits

\* The keys a user may type: none, blanks, too short, well formed, well
\* formed between blanks, one character short or long, and of the right
\* length with a character that is no letter and no digit.
ApiKeys ==
    {"", " ", "short", Repeat("a1", 16), " " \o Repeat("a1", 16) \o " ",
     Repeat("a1", 15) \o "a", Repeat("a1", 16) \o "b", Repeat("a-", 16),
     Repeat("a1", 15) \o " 1"}

\* The tokens a user may type.
Tokens ==
    {"", "  ", Repeat("token", 20), Repeat("tk", 32), Repeat("tk", 31) \o "t",
     " " \o Repeat("tk", 31) \o "t ", Repeat("tk", 32) \o "  "}

\* What requests.get(.../members/me) comes to: an answer with a status
\* code, or an exception.
TrelloResponses ==
    {[kind |-> "response", status_code |-> 200, user |-> user, text |-> "ok"] :
        user \in {[username |-> "ana", fullName |-> "Ana A", id |-> "u1"],
                  [username |-> "Unknown", fullName |-> "Unknown", id |-> "Unknown"]}}
      \cup {[kind |-> "response", status_code |-> code, user |-> NoneValue, text |-> "oops"] : code \in {401, 403, 500}}
      \cup {[kind |-> "raised", exception |-> e, message |-> "no route"] : e \in {"Timeout", "RequestException", "AttributeError"}}

\* A request to the Trello API, with the credentials it carries.
Request(method, path, api_key, token) == [method |-> method, url |-> "https://api.trello.com/1" \o path, key |-> api_key, token |-> token]

\* TrelloAPI.test_connection: the dict it returns, or the exception that is
\* none of requests' and so leaves it.
test_connection(response) ==
    IF response.kind = "response"
    THEN IF response.status_code = 200
         THEN [kind |-> "returned", success |-> TRUE, user |-> response.user]
         ELSE IF response.status_code = 401
         THEN [kind |-> "returned", success |-> FALSE, error |-> "Invalid API credentials. Please get fresh credentials from https://trello.com/app-key"]
         ELSE IF response.status_code = 403
         THEN [kind |-> "returned", success |-> FALSE, error |-> "Access denied. Check your token permissions."]
         ELSE [kind |-> "returned", success |-> FALSE, error |-> "API Error: " \o ToString(response.status_code) \o " - " \o response.text]
    ELSE IF response.exception = "Timeout"
    THEN [kind |-> "returned", success |-> FALSE, error |-> "Connection timeout. Please check your internet connection."]
    ELSE IF response.exception = "RequestException"
    THEN [kind |-> "returned", success |-> FALSE, error |-> "Connection failed: " \o response.message]
    ELSE [kind |-> "raised", exception |-> response.exception, message |-> response.message]

\* An early return of validate_trello_credentials: nothing was sent.
Rejected(error) == [returned |-> [success |-> FALSE, error |-> error], requests |-> <<>>]

\* The try block of validate_trello_credentials, with the request it sends.
TestActualConnection(api_key, token, response) ==
    LET outcome == test_connection(response)
    IN  [returned |-> IF outcome.kind = "returned"
                      THEN [key \in DOMAIN outcome \ {"kind"} |-> outcome[key]]
                      ELSE [success |-> FALSE, error |-> "Validation error: " \o outcome.message],
         requests |-> <<Request("GET", "/members/me", api_key, token)>>]

\* validate_trello_credentials that goes on to the connection test without
\* looking at the characters of the key.
ValidateWithoutAlnumCheck(api_key, token, response) ==
    IF api_key = "" \/ token = ""
    THEN Rejected("Both API Key and Token are required")
    ELSE IF Len(strip(api_key)) # 32
    THEN Rejected("API Key should be exactly 32 characters (got " \o ToString(Len(strip(api_key))) \o ")")
    ELSE IF Len(strip(token)) < 64
    THEN Rejected("Token should be at least 64 characters (got " \o ToString(Len(strip(token))) \o ")")
    ELSE TestActualConnection(strip(api_key), strip(token), response)

\* validate_trello_credentials: what it returns and the requests it sent.
validate_trello_credentials(api_key, token, response) ==
    IF api_key = "" \/ token = ""
    THEN Rejected("Both API Key and Token are required")
    ELSE IF Len(strip(api_key)) # 32
    THEN Rejected("API Key should be exactly 32 characters (got " \o ToString(Len(strip(api_key))) \o ")")
    ELSE IF Len(strip(token)) < 64
    THEN Rejected("Token should be at least 64 characters (got " \o ToString(Len(strip(token))) \o ")")
    ELSE IF ~isalnum(strip(api_key))
    THEN Rejected("API Key should only contain letters and numbers")
    ELSE TestActualConnection(strip(api_key), strip(token), response)

\* validate_trello_credentials over the inputs of the model, each call
\* worked out once.
ValidationTable ==
    [api_key \in ApiKeys, token \in Tokens, response \in TrelloResponses |-> validate_trello_credentials(api_key, token, response)]

\* A call of validate_trello_credentials outside the panel, in a process
\* of its own, as the test suite makes it.
ValidateCredentials(api_key, token, response) ==
    /\ handler.name = "none"
    /\ validation' = [kind |-> "validated", api_key |-> api_key, token |-> token, response |-> response, returned |-> ValidationTable[api_key, token, response].returned]
    /\ handler' = [name |-> "validate_trello_credentials", requests |-> ValidationTable[api_key, token, response].requests]
    /\ UNCHANGED <<session_state, parserVars, db>>

-----------------------------------------------------------------------------
(* The Trello panel (src/app/trello_integration.py): the handlers that     *)
(* read and write the Trello keys of st.session_state.  A key that is not  *)
(* in the dict is not in the domain of session_state.                      *)

\* d[key] = value
Set(d, key, value) == [k \in DOMAIN d \cup {key} |-> IF k = key THEN value ELSE d[k]]

\* for key in keys: if key in d: del d[key]
Del(d, keys) == [k \in DOMAIN d \ keys |-> d[k]]

\* _has_valid_credentials(): the three keys are there and none is empty.
_has_valid_credentials ==
    /\ {"trello_api_key", "trello_token", "trello_user"} \subseteq DOMAIN session_state
    /\ session_state["trello_api_key"] # ""
    /\ session_state["trello_token"] # ""
    /\ DOMAIN session_state["trello_user"] # {}

\* What get_user_boards may return: no board (or a failed request), one
\* board, two boards.
BoardLists ==
    {<<>>,
     <<[id |-> "b1", name |-> "Launch", desc |-> ""]>>,
     <<[id |-> "b1", name |-> "Launch", desc |-> ""], [id |-> "b2", name |-> "Home", desc |-> "chores"]>>}

\* What get_checklist_items may come to for a board: the board's
\* information is refused, or its cards hold no, one or two items.
BoardAnswers(board_id) ==
    LET item(id, name, state, card) == [id |-> id, name |-> name, state |-> state, card_id |-> card, card_name |-> "Card " \o card, checklist_id |-> "l1", checklist_name |-> "Todo", board_id |-> board_id, board_name |-> "Board " \o board_id]
        first == item("i1", "deploy", "incomplete", "c1")
        second == item("i2", "call client tomorrow", "complete", "c2")
    IN  {[board_info |-> FALSE, items |-> <<>>]}
          \cup {[board_info |-> TRUE, items |-> items] : items \in {<<>>, <<first>>, <<first, second>>}}

\* The answers for the boards of the model.
AllBoardAnswers == UNION {BoardAnswers(board_id) : board_id \in {"b1", "b2"}}

\* The items the filters and the "incomplete only" box leave: the items of
\* the model differ in state and in card, so any of them can be picked.
Selections(items) ==
    {<<>>} \cup {<<items[i]>> : i \in 1..Len(items)} \cup (IF Len(items) > 1 THEN {items} ELSE {})

\* What is typed into the panel and what the server then answers: a key
\* that is well formed, or well formed between blanks, or of the right
\* length with a dash in it; a token that is long enough or one short; the
\* account found, the credentials refused, or an answer that is no dict.
PanelInputs ==
    {Repeat("a1", 16), " " \o Repeat("a1", 16) \o " ", Repeat("a-", 16)}
      \X {Repeat("tk", 32), Repeat("tk", 31) \o "t"}
      \X {response \in TrelloResponses :
            IF response.kind = "raised" THEN response.exception = "AttributeError"
            ELSE IF response.status_code = 200 THEN response.user.id = "u1"
            ELSE response.status_code = 401}

\* "Test Connection": test_trello_connection(api_key, token), called when
\* both fields are filled.
test_trello_connection(api_key, token, response) ==
    /\ api_key # "" /\ token # ""
    /\ validation' = [kind |-> "validated", api_key |-> api_key, token |-> token, response |-> response, returned |-> ValidationTable[api_key, token, response].returned]
    /\ handler' = [name |-> "test_trello_connection", requests |-> ValidationTable[api_key, token, response].requests]
    /\ session_state' =
         IF validation'.returned.success
         THEN Set(Set(Set(session_state, "trello_api_key", api_key), "trello_token", token), "trello_user", validation'.returned.user)
         ELSE session_state
    /\ UNCHANGED <<parserVars, db>>

\* "Clear Credentials", which is always shown, and "Disconnect":
\* clear_trello_credentials()
clear_trello_credentials ==
    /\ session_state' = Del(session_state, {"trello_api_key", "trello_token", "trello_user", "trello_boards", "selected_board_id", "checklist_items", "analyzed_items"})
    /\ handler' = [name |-> "clear_trello_credentials", requests |-> <<>>]
    /\ validation' = NoResult
    /\ UNCHANGED <<parserVars, db>>

\* "Refresh" of display_connection_status
Refresh ==
    /\ _has_valid_credentials
    /\ session_state' = Del(session_state, {"trello_boards", "checklist_items", "analyzed_items"})
    /\ handler' = [name |-> "display_connection_status", requests |-> <<>>]
    /\ validation' = NoResult
    /\ UNCHANGED <<parserVars, db>>

\* "Load My Boards": load_trello_boards()
load_trello_boards(boards) ==
    /\ _has_valid_credentials
    /\ session_state' = IF boards # <<>> THEN Set(session_state, "trello_boards", boards) ELSE session_state
    /\ handler' = [name |-> "load_trello_boards", requests |-> <<Request("GET", "/members/me/boards", session_state["trello_api_key"], session_state["trello_token"])>>]
    /\ validation' = NoResult
    /\ UNCHANGED <<parserVars, db>>

\* display_board_selector(), when the user picks the board at
\* selected_index > 0 of the loaded boards.
display_board_selector(selected_index) ==
    /\ _has_valid_credentials
    /\ "trello_boards" \in DOMAIN session_state
    /\ selected_index \in 1..Len(session_state["trello_boards"])
    /\ session_state' = Set(Set(session_state, "selected_board_id", session_state["trello_boards"][selected_index].id), "selected_board", session_state["trello_boards"][selected_index])
    /\ handler' = [name |-> "display_board_selector", requests |-> <<>>]
    /\ validation' = NoResult
    /\ UNCHANGED <<parserVars, db>>

\* "Analyze Board": load_checklist_items(board['id']) for the board that
\* is selected.
load_checklist_items(answer) ==
    /\ _has_valid_credentials
    /\ {"trello_boards", "selected_board_id"} \subseteq DOMAIN session_state
    /\ answer \in BoardAnswers(session_state["selected_board_id"])
    /\ session_state' = IF answer.items # <<>> THEN Set(session_state, "checklist_items", answer.items) ELSE session_state
    /\ handler' = [name |-> "load_checklist_items",
                   requests |-> <<Request("GET", "/boards/" \o session_state["selected_board_id"], session_state["trello_api_key"], session_state["trello_token"])>>
                                  \o (IF answer.board_info
                                      THEN <<Request("GET", "/boards/" \o session_state["selected_board_id"] \o "/cards", session_state["trello_api_key"], session_state["trello_token"])>>
                                      ELSE <<>>)]
    /\ validation' = NoResult
    /\ UNCHANGED <<parserVars, db>>

\* "Analyze All Items": analyze_all_items(items_to_analyze), with the
\* parser of the session.
analyze_all_items(items_to_analyze) ==
    /\ _has_valid_credentials
    /\ {"selected_board_id", "checklist_items"} \subseteq DOMAIN session_state
    /\ items_to_analyze \in Selections(session_state["checklist_items"]) \ {<<>>}
    /\ session_state' = Set(session_state, "analyzed_items", [i \in 1..Len(items_to_analyze) |-> [item |-> items_to_analyze[i], ai_suggestion |-> SuggestionTable[parser, Str(items_to_analyze[i].name)]]])
    /\ result' = SuggestionTable[parser, Str(items_to_analyze[Len(items_to_analyze)].name)]
    /\ called_on' = now
    /\ handler' = [name |-> "analyze_all_items", requests |-> <<>>]
    /\ validation' = NoResult
    /\ UNCHANGED <<now, parser, db>>

\* The panel is opened in a session that starts on an anchor day.
InitTrello ==
    /\ now \in AnchorDays
    /\ parser = AdvancedAIDateParser(now)
    /\ result = NoResult
    /\ called_on = NoneValue
    /\ TrelloIdle
    /\ db = EmptyDatabase(FALSE)

NextTrello ==
    \/ \E api_key \in ApiKeys, token \in Tokens, response \in TrelloResponses : ValidateCredentials(api_key, token, response)
    \/ \E typed \in PanelInputs : test_trello_connection(typed[1], typed[2], typed[3])
    \/ clear_trello_credentials
    \/ Refresh
    \/ \E boards \in BoardLists : load_trello_boards(boards)
    \/ \E selected_index \in 1..2 : display_board_selector(selected_index)
    \/ \E answer \in AllBoardAnswers : load_checklist_items(answer)
    \/ \E answer \in AllBoardAnswers : \E items_to_analyze \in Selections(answer.items) : analyze_all_items(items_to_analyze)

SpecTrello == InitTrello /\ [][NextTrello]_vars

-----------------------------------------------------------------------------
(* C25 *)

\* The credentials of the last validation fail a format check: one of them
\* is empty, the trimmed key is not of 32 characters, the trimmed token is
\* of fewer than 64, or the trimmed key is not alphanumeric.
Malformed(api_key, token) ==
    \/ api_key = "" \/ token = ""
    \/ Len(strip(api_key)) # 32
    \/ Len(strip(token)) < 64
    \/ ~isalnum(strip(api_key))

\* C25: validate_trello_credentials returns success=False and sends no
\* request when the key or the token is empty, when the trimmed key is not
\* of exactly 32 characters (the error then mentions "32 characters"), when
\* the trimmed token is shorter than 64 characters, or when the key is not
\* alphanumeric; a request is sent only when every format check passed, and
\* success=True is returned only when the server answered that request
\* with status 200.
C25_FormatChecksBeforeConnection ==
    validation.kind = "validated" =>
        /\ Malformed(validation.api_key, validation.token) =>
              ~validation.returned.success /\ handler.requests = <<>>
        /\ (validation.api_key # "" /\ validation.token # "" /\ Len(strip(validation.api_key)) # 32) =>
              Contains(validation.returned.error, "32 characters")
        /\ handler.requests # <<>> => ~Malformed(validation.api_key, validation.token)
        /\ validation.returned.success =>
              /\ Len(handler.requests) = 1
              /\ validation.response.kind = "response"
              /\ validation.response.status_code = 200

\* The short key of the test suite is turned down, for its length, with no
\* request sent.
C25_Witness ==
    /\ validation.kind = "validated"
    /\ validation.api_key = "short"
    /\ validation.token = Repeat("token", 20)
    /\ validation.returned = [success |-> FALSE, error |-> "API Key should be exactly 32 characters (got 5)"]
    /\ handler.requests = <<>>

-----------------------------------------------------------------------------
(* C29 *)

\* The session holds credentials or a user only as a successful validation
\* left them: all three, of credentials that pass the format checks.
StoredOnlyAfterValidation ==
    DOMAIN session_state \cap {"trello_api_key", "trello_token", "trello_user"} # {} =>
        /\ _has_valid_credentials
        /\ ~Malformed(session_state["trello_api_key"], session_state["trello_token"])

\* C29: credentials and user are stored only after a successful
\* validation, and once clear_trello_credentials has run, whatever came
\* before it, _has_valid_credentials() is false and the session holds no
\* Trello credentials, no user, no boards, no selected board, no checklist
\* items and no analysis results.
C29_ClearedSessionHoldsNothing ==
    /\ StoredOnlyAfterValidation
    /\ handler.name = "clear_trello_credentials" =>
          /\ ~_has_valid_credentials
          /\ DOMAIN session_state \cap {"trello_api_key", "trello_token", "trello_user", "trello_boards", "selected_board_id", "selected_board", "checklist_items", "analyzed_items"} = {}

-----------------------------------------------------------------------------
(* The store (src/app/database.py): DatabaseManager over the tables        *)
(* task_analyses and export_history.  The ids are AUTOINCREMENT: a table   *)
(* never gives an id out twice.  get_connection opens the file without a   *)
(* PRAGMA, so the foreign key of export_history is enforced only where the *)
(* SQLite library enforces foreign keys by default; db.foreign_keys says   *)
(* whether it does.                                                        *)

\* At most MaxTasks analyses and MaxExports export records are saved.
MaxTasks == 2

MaxExports == 2

\* DatabaseManager.save_analysis(analysis_data)
save_analysis(task_text) ==
    /\ db.last_task_id < MaxTasks
    /\ db' = [db EXCEPT !.task_analyses = @ \cup {[id |-> db.last_task_id + 1, task_text |-> task_text, exported_to_calendar |-> FALSE]},
                        !.last_task_id = @ + 1]
    /\ UNCHANGED <<parserVars, trelloVars>>

\* DatabaseManager.save_export_record(task_id, export_type, success): where
\* foreign keys are enforced, the INSERT of a record for a task that is not
\* stored raises sqlite3.IntegrityError, which is rolled back and logged.
save_export_record(task_id, export_type, success) ==
    /\ db.last_export_id < MaxExports
    /\ db' = IF db.foreign_keys /\ task_id \notin {task.id : task \in db.task_analyses}
             THEN db
             ELSE [db EXCEPT !.export_history = @ \cup {[id |-> db.last_export_id + 1, task_id |-> task_id, export_type |-> export_type, success |-> success]},
                             !.last_export_id = @ + 1,
                             !.task_analyses = IF success /\ export_type = "calendar"
                                               THEN {IF task.id = task_id THEN [task EXCEPT !.exported_to_calendar = TRUE] ELSE task : task \in @}
                                               ELSE @]
    /\ UNCHANGED <<parserVars, trelloVars>>

\* DatabaseManager.delete_analysis(task_id)
delete_analysis(task_id) ==
    /\ db' = [db EXCEPT !.export_history = {record \in @ : record.task_id # task_id},
                        !.task_analyses = {task \in @ : task.id # task_id}]
    /\ UNCHANGED <<parserVars, trelloVars>>

\* DatabaseManager(): the file is created in a session that starts on an
\* anchor day.
InitDatabase ==
    /\ now \in AnchorDays
    /\ parser = AdvancedAIDateParser(now)
    /\ result = NoResult
    /\ called_on = NoneValue
    /\ TrelloIdle
    /\ db \in {EmptyDatabase(foreign_keys) : foreign_keys \in BOOLEAN}

NextDatabase ==
    \/ \E task_text \in {"deploy", "call client tomorrow"} : save_analysis(task_text)
    \/ \E task_id \in 1..(MaxTasks + 1), export_type \in {"calendar", "csv"}, success \in BOOLEAN : save_export_record(task_id, export_type, success)
    \/ \E task_id \in 1..(MaxTasks + 1) : delete_analysis(task_id)

SpecDatabase == InitDatabase /\ [][NextDatabase]_vars

-----------------------------------------------------------------------------
(* C30 *)

\* C30: after any sequence of save_analysis, save_export_record and
\* delete_analysis calls, the task_id of every export_history row is the
\* id of a task_analyses row.
C30_ExportsReferToStoredTasks ==
    \A record \in db.export_history : \E task \in db.task_analyses : task.id = record.task_id
=============================================================================
